---- MODULE Spec2Model ----
(***************************************************************************)
(* Model of generate_ics.py: the Beijing trailing-digit restriction        *)
(* calendar.  One run of the script is one behaviour:                      *)
(*   rot    read_rotations_yaml fills ROTATIONS            (lines 21-38)   *)
(*   fetch  fetch_cn_calendar reads the provider tables    (lines 55-76)   *)
(*          and builds the holiday block index             (lines 77-93)   *)
(*   fest   build_festival_layer                           (lines 132-160) *)
(*   loop   one calendar entry per date of the window      (lines 194-266) *)
(*   write  the epilogue                                   (lines 268-273) *)
(* An uncaught exception ends the run in pc = "crashed".                   *)
(*                                                                         *)
(* Dates are day ordinals; day 0 is a Monday, so weekday(d) = d % 7 with   *)
(* Monday = 0 .. Sunday = 6, as datetime.date.weekday() counts.            *)
(***************************************************************************)
EXTENDS Integers, Sequences, FiniteSets, TLC

VARIABLES
    pc,          \* where the run is: rot, fetch, fest, loop, done, crashed
    rot_src,     \* os.path.exists("rotations.yml"): "file" or "missing"
    ROTATIONS,   \* line 38: the list of rules {start, end, map}
    year,        \* line 57: the year fetch_cn_calendar is at
    in_table,    \* line 63: inside the loop over the year's table
    holidays,    \* line 56: date -> holiday name
    ADJUSTED,    \* line 56: the compensatory workdays
    HOLIDAY_IDX, \* line 78: date -> (name, position, length)
    FEST,        \* line 175: date -> set of observance names
    i,           \* line 194: the loop index
    lines,       \* line 185: the entries emitted so far, header left out
    console      \* line 273: what the run has printed

vars == <<pc, rot_src, ROTATIONS, year, in_table, holidays, ADJUSTED,
          HOLIDAY_IDX, FEST, i, lines, console>>

\* ---------------------------------------------------------------- bounds
\* dt.date.today(): the ordinal of the first day of the window (4 = a Friday)
Today == 4
\* DAYS_AHEAD (270 in the script), scaled down
DAYS_AHEAD == 3
\* most rules read from rotations.yml
MaxRules == 2
\* most dates of the window that carry festival names
MaxFestDays == 1

end == Today + DAYS_AHEAD

\* {today.year, end.year}, numbered in fetch order
years_needed == {1, 2}
NumYears == Cardinality(years_needed)
Window == Today..end

weekday(d) == d % 7

\* ------------------------------------------------------------ input sets
\* weekday -> digit pair, the two layouts of rotations.yml used here
MapA == [k \in 0..4 |-> <<(k + 1) % 10, (k + 6) % 10>>]
MapB == [k \in 0..4 |-> <<(k + 5) % 10, (k + 10) % 10>>]
Maps == {MapA, MapB}

\* what a record of rotations.yml can lack
RotDefects == {"none", "bad_start", "no_end", "no_map", "no_weekday"}

\* raw records of rotations.yml (a span that parses has start <= end)
RotRecords ==
    {r \in [start : Window, end : Window, map : Maps, defect : RotDefects] :
        r.start <= r.end}

\* the records of the holiday-rich specification: one full-window rule
RotRecordsFew ==
    {r \in RotRecords : r.start = Today /\ r.end = end /\ r.map = MapA
                         /\ r.defect \in {"none", "bad_start"}}

\* holiday names of the provider; "" is a missing or empty name
Names == {"NationalDay", ""}
DefaultName == "Holiday"

\* the shapes of a provider record's "type" field: {"type": 0|1|2}, absent,
\* or a bare non-zero number where an object is expected
TypeShapes == {"0", "1", "2", "absent", "scalar"}

\* raw records of the provider's "holiday" table
TimorRecords ==
    [date : Window, dateOk : BOOLEAN, holiday : BOOLEAN,
     type : TypeShapes, name : Names]

\* the records of the rotation-rich specification: compensatory weekends,
\* and a holiday on the first day of the window only
TimorRecordsFew ==
    {r \in TimorRecords :
        /\ r.name = "" /\ r.dateOk
        /\ r.type \in {"0", "scalar"}
        /\ (r.holiday => r.date = Today)}

\* observance names, numbered in their sort order
FestNames == {1, 2}

\* the sets of names a date can carry
FestNameSets == {{1}, {1, 2}}

\* festival layers: date -> non-empty set of names
FestLayers ==
    UNION {[S -> FestNameSets] :
              S \in {T \in SUBSET Window : Cardinality(T) <= MaxFestDays}}

\* the layer of the rotation-rich specification
FestLayersFew ==
    {f \in FestLayers : DOMAIN f = {Today} /\ f[Today] = FestNames}

None == <<>>


\* a dict with no key
EmptyDict == [x \in {} |-> None]

\* d[k] = v of a Python dict
Put(dict, k, v) ==
    [x \in DOMAIN dict \cup {k} |-> IF x = k THEN v ELSE dict[x]]

\* sorted(S) of a set of numbers, as a list
RECURSIVE sorted(_)
sorted(S) ==
    IF S = {} THEN <<>>
    ELSE LET m == CHOOSE x \in S : \A y \in S : x <= y
         IN  <<m>> \o sorted(S \ {m})

\* ------------------------------------------------- read_rotations_yaml
\* lines 28-35: a record raises (KeyError, ValueError) unless it carries a
\* parseable start and end and a map with all of Mon..Fri
RotRaises(item) == item.defect # "none"

\* lines 31-35: the rule appended for a well-formed record
RotRule(item) == [start |-> item.start, end |-> item.end, map |-> item.map]

\* lines 22-23: rotations.yml does not exist
ReadMissing ==
    /\ pc = "rot" /\ rot_src = "missing"
    /\ pc' = "fetch"
    /\ UNCHANGED <<rot_src, ROTATIONS, year, in_table, holidays, ADJUSTED,
                   HOLIDAY_IDX, FEST, i, lines, console>>

\* lines 27-35: one iteration of the loop over the file's records
ReadRecord(Recs) ==
    /\ pc = "rot" /\ rot_src = "file"
    /\ Len(ROTATIONS) < MaxRules
    /\ \E item \in Recs :
          IF RotRaises(item)
          THEN /\ pc' = "crashed"
               /\ UNCHANGED ROTATIONS
          ELSE /\ ROTATIONS' = Append(ROTATIONS, RotRule(item))
               /\ UNCHANGED pc
    /\ UNCHANGED <<rot_src, year, in_table, holidays, ADJUSTED,
                   HOLIDAY_IDX, FEST, i, lines, console>>

\* line 36: the file's records are exhausted (at once for an empty file)
ReadDone ==
    /\ pc = "rot" /\ rot_src = "file"
    /\ pc' = "fetch"
    /\ UNCHANGED <<rot_src, ROTATIONS, year, in_table, holidays, ADJUSTED,
                   HOLIDAY_IDX, FEST, i, lines, console>>

\* lines 40-44, the search from rule k on: the first rule spanning d, as a
\* list of one rule, or None
RECURSIVE rotation_from(_, _)
rotation_from(d, k) ==
    IF k > Len(ROTATIONS) THEN None
    ELSE IF ROTATIONS[k].start <= d /\ d <= ROTATIONS[k].end
         THEN <<ROTATIONS[k]>>
         ELSE rotation_from(d, k + 1)

\* the last rule spanning d instead of the first
rotation_last(d) ==
    LET ks == {k \in 1..Len(ROTATIONS) :
                  ROTATIONS[k].start <= d /\ d <= ROTATIONS[k].end}
    IN  IF ks = {} THEN None
        ELSE <<ROTATIONS[CHOOSE k \in ks : \A m \in ks : m <= k]>>

\* lines 40-44
rotation_for(d) == rotation_from(d, 1)

\* ---------------------------------------------------- fetch_cn_calendar
\* lines 58-61: http_json raises for this year; the year is skipped
FetchFail ==
    /\ pc = "fetch" /\ year <= NumYears /\ ~in_table
    /\ year' = year + 1
    /\ UNCHANGED <<pc, rot_src, ROTATIONS, in_table, holidays, ADJUSTED,
                   HOLIDAY_IDX, FEST, i, lines, console>>

\* lines 59, 62: the year's table arrives
FetchOk ==
    /\ pc = "fetch" /\ year <= NumYears /\ ~in_table
    /\ in_table' = TRUE
    /\ UNCHANGED <<pc, rot_src, ROTATIONS, year, holidays, ADJUSTED,
                   HOLIDAY_IDX, FEST, i, lines, console>>

\* line 68: (val.get("type") or {}).get("type"); -1 stands for None
TypeOf(val) ==
    CASE val.type = "0" -> 0
      [] val.type = "1" -> 1
      [] val.type = "2" -> 2
      [] OTHER -> -1

\* line 70: val.get("name") or the default label
NameOf(val) == IF val.name = "" THEN DefaultName ELSE val.name

\* lines 63-76: one record of the year's table
FetchRecord(Recs) ==
    /\ pc = "fetch" /\ in_table
    /\ \E val \in Recs :
          IF ~val.dateOk
          THEN \* lines 64-67: the date does not parse; the record is skipped
               UNCHANGED <<pc, holidays, ADJUSTED>>
          ELSE IF val.type = "scalar"
          THEN \* line 68: .get on a number, outside the try
               /\ pc' = "crashed"
               /\ UNCHANGED <<holidays, ADJUSTED>>
          ELSE IF val.holiday \/ TypeOf(val) = 2
          THEN /\ holidays' = Put(holidays, val.date, NameOf(val))
               /\ UNCHANGED <<pc, ADJUSTED>>
          ELSE IF weekday(val.date) >= 5 /\ TypeOf(val) = 0
          THEN /\ ADJUSTED' = ADJUSTED \cup {val.date}
               /\ UNCHANGED <<pc, holidays>>
          ELSE \* a plain weekday, or a weekend kept as a weekend
               UNCHANGED <<pc, holidays, ADJUSTED>>
    /\ UNCHANGED <<rot_src, ROTATIONS, year, in_table,
                   HOLIDAY_IDX, FEST, i, lines, console>>

\* line 63: the year's table is exhausted
FetchYearDone ==
    /\ pc = "fetch" /\ in_table
    /\ year' = year + 1
    /\ in_table' = FALSE
    /\ UNCHANGED <<pc, rot_src, ROTATIONS, holidays, ADJUSTED,
                   HOLIDAY_IDX, FEST, i, lines, console>>

\* lines 79-83: the dates of one holiday name, sorted
by_name(hol, nm) == sorted({d \in DOMAIN hol : hol[d] = nm})

\* a block that forgets the contiguity test
RunEndMerged(ds, j) == Len(ds)

\* lines 86-88: the last index of the run of consecutive dates from j
RECURSIVE RunEnd(_, _)
RunEnd(ds, j) ==
    IF j + 1 <= Len(ds) /\ ds[j + 1] = ds[j] + 1
    THEN RunEnd(ds, j + 1)
    ELSE j

\* lines 84-92: the blocks of one name from index k on, added to idx
RECURSIVE Blocks(_, _, _, _)
Blocks(nm, ds, k, idx) ==
    IF k > Len(ds) THEN idx
    ELSE LET j     == RunEnd(ds, k)
             total == ds[j] - ds[k] + 1
             run   == ds[k]..(ds[k] + total - 1)
             new   == [x \in DOMAIN idx \cup run |->
                          IF x \in run THEN <<nm, x - ds[k] + 1, total>>
                                       ELSE idx[x]]
         IN  Blocks(nm, ds, j + 1, new)

\* lines 82-92: the loop over the names
RECURSIVE BlocksOfNames(_, _, _)
BlocksOfNames(hol, nms, idx) ==
    IF nms = {} THEN idx
    ELSE LET nm == CHOOSE n \in nms : TRUE
         IN  BlocksOfNames(hol, nms \ {nm}, Blocks(nm, by_name(hol, nm), 1, idx))

\* lines 77-92: day_idx of a holiday map
day_idx(hol) == BlocksOfNames(hol, {hol[d] : d \in DOMAIN hol}, EmptyDict)

\* lines 57, 77-93: every year is done; the block index is built
BuildIndex ==
    /\ pc = "fetch" /\ year > NumYears
    /\ HOLIDAY_IDX' = day_idx(holidays)
    /\ pc' = "fest"
    /\ UNCHANGED <<rot_src, ROTATIONS, year, in_table, holidays, ADJUSTED,
                   FEST, i, lines, console>>

\* ------------------------------------------------- build_festival_layer
\* lines 132-160: the names the four rule families give each date of the
\* window; a date with no name gets no key (lines 157-158)
BuildFestival(Layers) ==
    /\ pc = "fest"
    /\ \E f \in Layers : FEST' = f
    /\ pc' = "loop"
    /\ UNCHANGED <<rot_src, ROTATIONS, year, in_table, holidays, ADJUSTED,
                   HOLIDAY_IDX, i, lines, console>>

\* ------------------------------------------------------------ main flow
\* the holiday test before the compensatory-workday test
is_workday_holiday_first(d) ==
    IF d \in DOMAIN holidays THEN FALSE
    ELSE IF d \in ADJUSTED THEN TRUE
    ELSE weekday(d) < 5

\* the weekday test alone, with the compensatory workdays
is_workday_no_holiday(d) == d \in ADJUSTED \/ weekday(d) < 5

\* lines 177-180
is_workday(d) ==
    IF d \in ADJUSTED THEN TRUE
    ELSE IF d \in DOMAIN holidays THEN FALSE
    ELSE weekday(d) < 5

\* a lookup that never finds the date
holiday_info_miss(d) == [is_h |-> FALSE, hname |-> "", hidx |-> 0, htot |-> 0]

\* lines 182-183; "" and 0 stand for None
holiday_info(d) ==
    IF d \in DOMAIN HOLIDAY_IDX
    THEN [is_h |-> TRUE, hname |-> HOLIDAY_IDX[d][1],
          hidx |-> HOLIDAY_IDX[d][2], htot |-> HOLIDAY_IDX[d][3]]
    ELSE [is_h |-> FALSE, hname |-> "", hidx |-> 0, htot |-> 0]

\* an identifier that leaves the date out
uid_for_no_date(d, s) == <<"bjxx", 0, s>>

\* line 165: the digest of "bjxx-<date>-<s>", taken as one-to-one on the
\* strings of a run; the identifier is the string digested
uid_for(d, s) == <<"bjxx", d, s>>

\* lines 200-202: the names shown, sorted, or nothing
fest_names(d, is_h) ==
    IF ~is_h /\ d \in DOMAIN FEST THEN sorted(FEST[d]) ELSE <<>>

\* the raw weekday as the key
rotation_key_raw(d) == weekday(d)

\* lines 206-208
rotation_key(d) ==
    IF d \in ADJUSTED /\ weekday(d) > 4 THEN 4 ELSE weekday(d)

\* lines 214, 224, 248: the festival line; <<>> is the word for "none"
line2(h, fn) == IF h.is_h THEN <<>> ELSE IF fn # <<>> THEN fn ELSE <<>>

\* lines 215, 225, 249: the holiday line; <<>> is the word for "none"
line3(h) == IF h.is_h THEN <<h.hname, h.htot, h.hidx>> ELSE <<>>

\* lines 195-266: the entry of date d
VEvent(d) ==
    LET h  == holiday_info(d)
        fn == fest_names(d, h.is_h)
    IN  IF is_workday(d)
        THEN LET ro  == rotation_for(d)
                 key == rotation_key(d)
             IN  IF ro # None /\ key \in DOMAIN ro[1].map
                 THEN [date |-> d, tag |-> "work", uid |-> uid_for(d, "work"),
                       dtstart |-> <<7, 0>>, dtend |-> <<20, 0>>,
                       summary |-> "digits", digits |-> ro[1].map[key],
                       line2 |-> line2(h, fn), line3 |-> line3(h),
                       hint |-> FALSE]
                 ELSE [date |-> d, tag |-> "work", uid |-> uid_for(d, "work"),
                       dtstart |-> <<7, 0>>, dtend |-> <<20, 0>>,
                       summary |-> "unmatched", digits |-> None,
                       line2 |-> line2(h, fn), line3 |-> line3(h),
                       hint |-> TRUE]
        ELSE [date |-> d, tag |-> "free", uid |-> uid_for(d, "free"),
              dtstart |-> <<0, 0>>, dtend |-> <<23, 59>>,
              summary |-> "free", digits |-> None,
              line2 |-> line2(h, fn), line3 |-> line3(h),
              hint |-> FALSE]

\* lines 194-266: one iteration of the loop over the window
Emit ==
    /\ pc = "loop" /\ i <= DAYS_AHEAD
    /\ lines' = Append(lines, VEvent(Today + i))
    /\ i' = i + 1
    /\ UNCHANGED <<pc, rot_src, ROTATIONS, year, in_table, holidays, ADJUSTED,
                   HOLIDAY_IDX, FEST, console>>

Generated == "generated"
Insufficient == "coverage insufficient"

\* a closing report that adds an advisory when the window's tail is uncovered
Report_advisory ==
    IF rotation_for(end) = None THEN <<Insufficient, Generated>>
                                ELSE <<Generated>>

\* line 273: what the run prints
Report == <<Generated>>

\* lines 268-273: the loop is over; the file is written, the report printed
Epilogue ==
    /\ pc = "loop" /\ i > DAYS_AHEAD
    /\ console' = console \o Report
    /\ pc' = "done"
    /\ UNCHANGED <<rot_src, ROTATIONS, year, in_table, holidays, ADJUSTED,
                   HOLIDAY_IDX, FEST, i, lines>>

\* -------------------------------------------------------- specification
Init ==
    /\ pc = "rot"
    /\ rot_src \in {"missing", "file"}
    /\ ROTATIONS = <<>>
    /\ year = 1
    /\ in_table = FALSE
    /\ holidays = EmptyDict
    /\ ADJUSTED = {}
    /\ HOLIDAY_IDX = EmptyDict
    /\ FEST = EmptyDict
    /\ i = 0
    /\ lines = <<>>
    /\ console = <<>>

\* the run with every holiday table and one rotation rule
Next ==
    \/ ReadMissing
    \/ ReadRecord(RotRecordsFew)
    \/ ReadDone
    \/ FetchFail
    \/ FetchOk
    \/ FetchRecord(TimorRecords)
    \/ FetchYearDone
    \/ BuildIndex
    \/ BuildFestival(FestLayers)
    \/ Emit
    \/ Epilogue

Spec == Init /\ [][Next]_vars

\* the run with every rotation table and few holiday records
NextRot ==
    \/ ReadMissing
    \/ ReadRecord(RotRecords)
    \/ ReadDone
    \/ FetchFail
    \/ FetchOk
    \/ FetchRecord(TimorRecordsFew)
    \/ FetchYearDone
    \/ BuildIndex
    \/ BuildFestival(FestLayersFew)
    \/ Emit
    \/ Epilogue

SpecRot == Init /\ [][NextRot]_vars

\* ================================================================ claims
\* the rules of the table that span d, by position
Covering(d) ==
    {k \in 1..Len(ROTATIONS) : ROTATIONS[k].start <= d /\ d <= ROTATIONS[k].end}

\* the first of them in table order
FirstCovering(d) ==
    ROTATIONS[CHOOSE k \in Covering(d) : \A m \in Covering(d) : k <= m]

\* the elements of a list
Range(seq) == {seq[k] : k \in 1..Len(seq)}

\* the provider data are loaded and the block index is built
Loaded == pc \in {"fest", "loop", "done"}

\* C1: is_workday follows a three-step precedence: a date of the
\* adjusted-workday set is a workday (also when it is a holiday or a
\* Saturday/Sunday); otherwise a date of the holiday set is not (also when
\* it is Monday-Friday); otherwise it is one exactly on Monday-Friday.  The
\* tag of every emitted entry follows the same precedence.
C1_WorkdayPrecedence ==
    /\ \A d \in Window :
          /\ d \in ADJUSTED => is_workday(d)
          /\ (d \notin ADJUSTED /\ d \in DOMAIN holidays) => ~is_workday(d)
          /\ (d \notin ADJUSTED /\ d \notin DOMAIN holidays)
                => (is_workday(d) <=> weekday(d) \in {0, 1, 2, 3, 4})
    /\ \A e \in Range(lines) :
          /\ e.date \in ADJUSTED => e.tag = "work"
          /\ (e.date \notin ADJUSTED /\ e.date \in DOMAIN holidays)
                => e.tag = "free"
          /\ (e.date \notin ADJUSTED /\ e.date \notin DOMAIN holidays)
                => (e.tag = "work" <=> weekday(e.date) \in {0, 1, 2, 3, 4})

\* C1 witness: a weekend date in both sets emitted as a workday, and a
\* Monday-Friday holiday emitted as a free day
C1_Witness ==
    /\ \E e \in Range(lines) :
          /\ e.date \in ADJUSTED /\ e.date \in DOMAIN holidays
          /\ weekday(e.date) >= 5 /\ e.tag = "work"
    /\ \E e \in Range(lines) :
          /\ e.date \notin ADJUSTED /\ e.date \in DOMAIN holidays
          /\ weekday(e.date) < 5 /\ e.tag = "free"

\* the key the claims expect for a workday: its weekday, Friday's slot for
\* a Saturday or Sunday
ExpectedKey(d) == IF weekday(d) >= 5 THEN 4 ELSE weekday(d)

\* C2: for every workday the lookup reads the first rule in table order
\* whose span contains the date, under the date's weekday key (after the
\* weekend remap): the entry reports that rule's digit pair exactly when
\* such a rule exists and its map has the key; with an empty table, no
\* spanning rule or an absent key it reports "rotation not matched" and no
\* pair, and the entry is emitted all the same.
C2_RotationLookup ==
    /\ \A e \in Range(lines) :
          e.tag = "work" =>
             IF Covering(e.date) # {}
                /\ ExpectedKey(e.date) \in DOMAIN FirstCovering(e.date).map
             THEN /\ e.summary = "digits"
                  /\ e.digits = FirstCovering(e.date).map[ExpectedKey(e.date)]
             ELSE /\ e.summary = "unmatched"
                  /\ e.digits = None
    /\ pc = "done" =>
          \A d \in Window : is_workday(d) =>
             \E e \in Range(lines) : e.date = d /\ e.tag = "work"

\* C2 witness: two rules with different maps span a workday, whose entry
\* carries the first rule's pair, and another workday is spanned by no rule
\* and reported unmatched
C2_Witness ==
    /\ \E e \in Range(lines) :
          /\ e.tag = "work" /\ Cardinality(Covering(e.date)) = 2
          /\ ROTATIONS[1].map # ROTATIONS[2].map
          /\ e.digits = ROTATIONS[1].map[ExpectedKey(e.date)]
    /\ \E e \in Range(lines) :
          e.tag = "work" /\ Covering(e.date) = {} /\ e.summary = "unmatched"

\* C3: a compensatory workday on a Saturday or Sunday is looked up under
\* the Friday slot (key 4) of the rule spanning the date itself, never
\* under 5 or 6: its entry is a workday entry with that rule's Friday pair,
\* (5,0) when the rule's map has Fri:(5,0).
C3_WeekendUsesFridaySlot ==
    \A e \in Range(lines) :
       (e.date \in ADJUSTED /\ weekday(e.date) \in {5, 6}) =>
          /\ e.tag = "work"
          /\ Covering(e.date) # {} =>
                /\ e.summary = "digits"
                /\ e.digits = FirstCovering(e.date).map[4]
                /\ FirstCovering(e.date).map[4] = <<5, 0>> => e.digits = <<5, 0>>

\* C3 witness: a compensatory Saturday and a compensatory Sunday, both
\* spanned by a rule with Fri:(5,0), both restricted (5,0)
C3_Witness ==
    \E e1, e2 \in Range(lines) :
       /\ weekday(e1.date) = 5 /\ weekday(e2.date) = 6
       /\ {e1.date, e2.date} \subseteq ADJUSTED
       /\ Covering(e1.date) # {} /\ Covering(e2.date) # {}
       /\ FirstCovering(e1.date).map[4] = <<5, 0>>
       /\ FirstCovering(e2.date).map[4] = <<5, 0>>
       /\ e1.tag = "work" /\ e2.tag = "work"
       /\ e1.digits = <<5, 0>> /\ e2.digits = <<5, 0>>

\* a..b is a maximal run of consecutive dates that all carry the name nm
MaximalRun(a, b, nm) ==
    /\ a <= b
    /\ \A d \in a..b : d \in DOMAIN holidays /\ holidays[d] = nm
    /\ ~(a - 1 \in DOMAIN holidays /\ holidays[a - 1] = nm)
    /\ ~(b + 1 \in DOMAIN holidays /\ holidays[b + 1] = nm)

\* C4: the block index has exactly one entry (name, position, length) per
\* holiday date, and along every maximal run of consecutive dates sharing
\* one name, of length L, the pairs read (1,L), (2,L), ..., (L,L): runs of
\* one name apart by a gap are numbered apart, and adjacent dates of
\* different names are never merged.
C4_BlockNumbering ==
    Loaded =>
       /\ DOMAIN HOLIDAY_IDX = DOMAIN holidays
       /\ \A a \in DOMAIN holidays : \A b \in DOMAIN holidays :
             MaximalRun(a, b, holidays[a]) =>
                \A d \in a..b :
                   HOLIDAY_IDX[d] = <<holidays[a], d - a + 1, b - a + 1>>

\* C4 witness: a run of two days, then a day of another name, then the
\* first name again as a block of its own
C4_Witness ==
    /\ Loaded
    /\ \E a \in DOMAIN holidays :
          /\ {a + 1, a + 2, a + 3} \subseteq DOMAIN holidays
          /\ holidays[a + 1] = holidays[a]
          /\ holidays[a + 2] # holidays[a]
          /\ holidays[a + 3] = holidays[a]
          /\ HOLIDAY_IDX[a] = <<holidays[a], 1, 2>>
          /\ HOLIDAY_IDX[a + 1] = <<holidays[a], 2, 2>>
          /\ HOLIDAY_IDX[a + 2] = <<holidays[a + 2], 1, 1>>
          /\ HOLIDAY_IDX[a + 3] = <<holidays[a], 1, 1>>

\* C5: an entry of a date with a holiday block entry shows no festival or
\* solar-term name, whatever the festival layer holds, in the workday
\* branch (matched or not) and the free branch alike; an entry of any other
\* date shows the layer's names for the date.
C5_HolidayHidesFestival ==
    \A e \in Range(lines) :
       IF e.date \in DOMAIN HOLIDAY_IDX
       THEN e.line2 = <<>>
       ELSE IF e.date \in DOMAIN FEST
            THEN /\ Range(e.line2) = FEST[e.date]
                 /\ Len(e.line2) = Cardinality(FEST[e.date])
            ELSE e.line2 = <<>>

\* C5 witness: a holiday that is a workday entry, with names in the layer
\* and none shown
C5_Witness ==
    \E e \in Range(lines) :
       /\ e.date \in DOMAIN HOLIDAY_IDX /\ e.date \in DOMAIN FEST
       /\ e.tag = "work" /\ e.summary = "digits"
       /\ e.line2 = <<>> /\ e.line3 # <<>>

\* C5 witness of the other half: a date that is no holiday shows its names
C5_WitnessShown ==
    \E e \in Range(lines) :
       /\ e.date \notin DOMAIN HOLIDAY_IDX /\ e.date \in DOMAIN FEST
       /\ e.line2 = <<1, 2>>

\* C6 as stated: a date of the window outside all rotation ranges makes the
\* run flag a run-level "coverage insufficient" advisory, besides the date
\* being reported as rotation not matched.
C6_RunLevelAdvisory ==
    pc = "done" =>
       \A d \in Window : Covering(d) = {} =>
          /\ Insufficient \in Range(console)
          /\ \E e \in Range(lines) : e.date = d /\ e.summary = "unmatched"

\* C6 amended: a workday of the window outside all rotation ranges is
\* reported as rotation not matched, with the hint to update the rotation
\* table in its entry, and only such entries carry the hint; the run flags
\* no run-level advisory: its report is the one closing line, whatever the
\* coverage.
C6_PerDateHintOnly ==
    /\ \A e \in Range(lines) :
          /\ (e.tag = "work" /\ Covering(e.date) = {})
                => (e.summary = "unmatched" /\ e.hint)
          /\ e.hint => (e.tag = "work" /\ e.summary = "unmatched")
    /\ pc = "done" => console = <<Generated>>
    /\ pc # "done" => console = <<>>

\* C6 witness: the run is over, the window's tail is past the last rule's
\* end, a workday there is reported unmatched, and the report is the
\* closing line alone
C6_Witness ==
    /\ pc = "done"
    /\ ROTATIONS # <<>>
    /\ \A k \in 1..Len(ROTATIONS) : ROTATIONS[k].end < end
    /\ \E e \in Range(lines) :
          /\ e.date = end /\ e.tag = "work"
          /\ e.summary = "unmatched" /\ e.hint
    /\ console = <<Generated>>

\* C7: the run emits one entry per date of the window, in ascending date
\* order, N+1 in all; no two entries carry the same identifier; each
\* identifier is that of (date, tag) and each date gets one of the two tags.
C7_OneEntryPerDate ==
    /\ pc \in {"rot", "fetch", "fest", "crashed"} => lines = <<>>
    /\ pc = "loop" => Len(lines) = i
    /\ pc = "done" => Len(lines) = DAYS_AHEAD + 1
    /\ \A k \in 1..Len(lines) :
          /\ lines[k].date = Today + k - 1
          /\ lines[k].tag \in {"work", "free"}
          /\ lines[k].uid = <<"bjxx", lines[k].date, lines[k].tag>>
    /\ \A k \in 1..Len(lines) : \A m \in 1..Len(lines) :
          k # m => lines[k].uid # lines[m].uid

\* C7 witness: a finished run with its N+1 entries, of both tags
C7_Witness ==
    /\ pc = "done"
    /\ Len(lines) = DAYS_AHEAD + 1
    /\ \E k \in 1..Len(lines) : \E m \in 1..Len(lines) :
          k < m /\ lines[k].tag = "work" /\ lines[m].tag = "work"
    /\ \E e \in Range(lines) : e.tag = "free"
    /\ holidays # EmptyDict /\ ADJUSTED # {} /\ FEST # EmptyDict

\* C8: no provider condition is fatal: whatever rotations.yml and the
\* holiday provider hold, a malformed record included, the run does not
\* abort.
C8_NothingFatal == pc # "crashed"

\* C9: after fetch_cn_calendar, whatever the records (two records of one
\* date with different types included), the adjusted-workday set and the
\* holiday set are disjoint and every adjusted workday is a Saturday or
\* Sunday; so no entry is a workday entry labelled with a holiday block.
C9_AdjustedDisjointFromHolidays ==
    /\ ADJUSTED \cap DOMAIN holidays = {}
    /\ \A d \in ADJUSTED : weekday(d) \in {5, 6}
    /\ \A e \in Range(lines) : ~(e.tag = "work" /\ e.line3 # <<>>)

\* C10: a digit pair or the "rotation not matched" marker appears only in
\* the entry of a workday: every date that is not one (a plain weekend, a
\* holiday outside the adjusted set, a Monday-Friday holiday under a
\* rotation rule included) gets a free, full-day entry with no pair, no
\* marker and no hint, whatever the rotation table holds.
C10_RestrictionOnlyOnWorkdays ==
    \A e \in Range(lines) :
       /\ (e.date \notin ADJUSTED
           /\ (e.date \in DOMAIN holidays \/ weekday(e.date) \in {5, 6}))
             => /\ e.tag = "free" /\ e.summary = "free"
                /\ e.digits = None /\ ~e.hint
                /\ e.dtstart = <<0, 0>> /\ e.dtend = <<23, 59>>
       /\ (e.digits # None \/ e.summary = "unmatched")
             => /\ e.tag = "work"
                /\ (e.date \in ADJUSTED
                    \/ (e.date \notin DOMAIN holidays /\ weekday(e.date) < 5))

\* C10 witness: a Monday-Friday holiday spanned by a rotation rule, and a
\* plain Saturday, both emitted as free days with no pair
C10_Witness ==
    /\ \E e \in Range(lines) :
          /\ e.date \in DOMAIN holidays /\ e.date \notin ADJUSTED
          /\ weekday(e.date) < 5 /\ Covering(e.date) # {}
          /\ e.tag = "free" /\ e.digits = None
    /\ \E e \in Range(lines) :
          /\ e.date \notin DOMAIN holidays /\ e.date \notin ADJUSTED
          /\ weekday(e.date) = 5 /\ Covering(e.date) # {}
          /\ e.tag = "free" /\ e.digits = None

====
